---- MODULE Spec2Model ----
(***************************************************************************)
(* Model of Communication::SPISlaveHandler, the SPI-slave transport engine *)
(* (src/app/lib/Communication/SPISlaveHandler.{h,cpp}).                    *)
(*                                                                         *)
(* Two kinds of context run the code: the SPI driver's interrupt handler   *)
(* (onSpiPreTransaction, onSpiTransaction) and the tasks that call the     *)
(* public methods.  On the dual-core target a task on the other core runs  *)
(* while the interrupt handler does, so the callback and the task methods  *)
(* are interleaved at the points where they touch shared state: the queue  *)
(* semaphore, the queue, the flags.                                        *)
(*                                                                         *)
(* A buffer of _bufferSize bytes is written as the sequence of its leading *)
(* bytes; every byte after the end of the sequence is zero.                *)
(***************************************************************************)
EXTENDS Integers, Sequences, FiniteSets, TLC

VARIABLES
  initialized,           \* _initialized
  txBuffer,              \* _txBuffer contents
  rxBuffer,              \* _rxBuffer contents
  txLength,              \* _txLength
  dataReady,             \* _dataReady
  needsNewTransaction,   \* _needsNewTransaction
  lastTransactionTime,   \* _lastTransactionTime
  transactionActive,     \* _transactionActive
  transactionCount,      \* _transactionCount
  recoveryAttempts,      \* _recoveryAttempts
  receiveCallback,       \* _receiveCallback registered
  receiveQueue,          \* _receiveQueue
  queueSemaphore,        \* _queueSemaphore: Free or the task holding it
  hw,                    \* the SPI slave driver: installed, descriptors, loaded
  now,                   \* millis()
  isr,                   \* position and locals of onSpiTransaction
  task,                  \* position and locals of each task
  created,               \* packets constructed so far (new SPIDataPacket)
  lastDequeued,          \* id of the packet popped last by processNextReceive
  delivered,             \* the calls of the registered receive callback
  deleted,               \* ids of the packets destroyed (delete packet)
  bufferPool,            \* _bufferPool: in-use flag and contents of each buffer
  heap,                  \* one-off buffers allocated by getBuffer and not freed
  got,                   \* the pointer getBuffer returned last
  pins,                  \* _sckPin, _misoPin, _mosiPin, _csPin and _mode
  driverPins             \* pins and mode the installed driver was given

engineVars == <<initialized, txBuffer, rxBuffer, txLength, dataReady,
                needsNewTransaction, lastTransactionTime, transactionActive,
                transactionCount, recoveryAttempts, receiveCallback,
                receiveQueue, queueSemaphore, hw, now, isr, task, created,
                lastDequeued, delivered, deleted>>

poolVars == <<bufferPool, heap, got>>

configVars == <<pins, driverPins>>

vars == <<initialized, txBuffer, rxBuffer, txLength, dataReady,
          needsNewTransaction, lastTransactionTime, transactionActive,
          transactionCount, recoveryAttempts, receiveCallback, receiveQueue,
          queueSemaphore, hw, now, isr, task, created, lastDequeued, delivered,
          deleted, bufferPool, heap, got, pins, driverPins>>

-----------------------------------------------------------------------------
(* Program constants *)

maxQueueSize == 10
transactionTimeout == 3000
bufferSize == 8096
InitialTransactions == 3
SPI_SCK_PIN == 12
SPI_MISO_PIN == 13
SPI_MOSI_PIN == 15
SPI_ESP32_SS == 14
SPI_MODE0 == 0
DriverQueueSize == 5
SPI_BUFFER_POOL_SIZE == 6

PING == 1
PONG == 2
CAMERA_DATA_REQUEST == 32
CAMERA_DATA_BLOCK_REQUEST == 34
BUFFER_STATUS_REQUEST == 48
ACK == 170
NACK == 255

(* Bounds of the model *)
MaxTransactions == 3      \* completed transfers
MaxWatchdogTransactions == 2  \* completed transfers while the watchdog polls
MaxPolledTransactions == 4    \* completed transfers while only the poll runs
MaxTicks == 7             \* clock advances, of 1000 ms each
MaxRecoveries == 2        \* resetSPIInterface invocations
MaxHeap == 2              \* one-off buffers alive at a time

-----------------------------------------------------------------------------
(* Values *)

Free == "free"
NoPacket == [id |-> 0, data |-> <<>>, length |-> 0]
None == "none"

(* The fixed pattern resetSPIInterface stages. *)
Beacon == <<170, 85, 170, 85>>

(* Byte i (1-based) of a buffer. *)
ByteAt(buf, i) == IF i <= Len(buf) THEN buf[i] ELSE 0

(* memset(buf, 0, _bufferSize) *)
Memset0(buf) == <<>>

(* memcpy(buf, src, n): the first n bytes of src over the first n of buf. *)
(* Bytes of src after its written length are zero, as are those of buf,    *)
(* so the result is written no longer than the bytes that can be non-zero. *)
Memcpy(buf, src, n) ==
  LET k == IF n < Len(src) THEN n ELSE Len(src)
      m == IF Len(buf) > n THEN Len(buf) ELSE k
  IN  [i \in 1..m |-> IF i <= n THEN ByteAt(src, i) ELSE buf[i]]

(* Unsigned long is 32 bits wide.  A word is written as the signed integer *)
(* with the same 32 bits, so a difference that wraps below zero (the word   *)
(* 2^32 - d) is written -d.  The clock values of the model stay far below   *)
(* 2^31, where a - b has the bits of the unsigned difference.               *)
Sub32(a, b) == a - b

(* x > n on unsigned long, for a word x and 0 <= n < 2^31: a word with the *)
(* top bit set (written negative) is above every such n.                   *)
Above32(x, n) == x < 0 \/ x > n

(* new SPIDataPacket(src, len): an owned copy of len bytes. *)
NewPacket(n, src, len) ==
  [id |-> n, data |-> Memcpy(<<>>, src, len), length |-> len]

Tasks == {"t1", "t2"}

(* A task: where it is (pc) in which method (op; when idle, the method it  *)
(* ran last), what that method returned (ret: "true", "false", None; count *)
(* for a size_t), and the locals it holds across steps.                    *)
IdleTask == [pc |-> "idle", op |-> None, ret |-> None, count |-> 0,
             packet |-> NoPacket, currentTime |-> 0]

(* init() called with no arguments: every pin -1, mode SPI_MODE0 *)
DefaultArgs ==
  [sck |-> -1, miso |-> -1, mosi |-> -1, cs |-> -1, mode |-> SPI_MODE0]

(* the constructor's _sckPin(0), _misoPin(0), _mosiPin(0), _csPin(0),      *)
(* _mode(SPI_MODE0)                                                        *)
NoPins == [sck |-> 0, miso |-> 0, mosi |-> 0, cs |-> 0, mode |-> SPI_MODE0]

(* bool as the model writes a method's return value *)
Bool(b) == IF b THEN "true" ELSE "false"

(* a const uint8_t* argument: the null pointer, or a pointer to bytes *)
NullPtr == [null |-> TRUE, bytes |-> <<>>]
Ptr(bytes) == [null |-> FALSE, bytes |-> bytes]

(* The completion callback: where it is, the packet it has built, the      *)
(* bytes the transfer received (rxBytes) and the transmit buffer as the    *)
(* completed transfer sent it.                                             *)
IdleIsr == [pc |-> "idle", packet |-> NoPacket, rxBytes |-> 0, sent |-> <<>>]

HwOff == [installed |-> FALSE, queued |-> 0, loaded |-> FALSE]

-----------------------------------------------------------------------------
(* Buffer pool *)

(* A buffer pointer: 0 is the null pointer, 1..SPI_BUFFER_POOL_SIZE are    *)
(* the data pointers of the pool entries, the pointers above are one-off   *)
(* allocations of heap_caps_malloc.                                        *)
PoolPtrs == 1..SPI_BUFFER_POOL_SIZE
HeapPtrs == (SPI_BUFFER_POOL_SIZE + 1)..(SPI_BUFFER_POOL_SIZE + MaxHeap)

(* the pool the constructor leaves: every buffer free and zeroed *)
FreshPool == [i \in PoolPtrs |-> [inUse |-> FALSE, bytes |-> <<>>]]

(* getBuffer(), lines 110-115: the first entry not in use, 0 when none *)
FirstFree(pool) ==
  IF \E i \in PoolPtrs : ~pool[i].inUse
  THEN CHOOSE i \in PoolPtrs :
         ~pool[i].inUse /\ \A j \in PoolPtrs : ~pool[j].inUse => i <= j
  ELSE 0

(* getBuffer() with every entry in use hands out the first entry again *)
GetBufferPtrReuse(pool, m) ==
  IF FirstFree(pool) # 0 THEN FirstFree(pool) ELSE 1

(* getBuffer(): the pointer returned, m being what heap_caps_malloc gives  *)
(* when the pool has no free entry (line 119)                              *)
GetBufferPtr(pool, m) ==
  IF FirstFree(pool) # 0 THEN FirstFree(pool) ELSE m

(* getBuffer(): the pool it leaves (line 112) *)
GetBufferPool(pool) ==
  IF FirstFree(pool) # 0
  THEN [pool EXCEPT ![FirstFree(pool)].inUse = TRUE]
  ELSE pool

(* returnBuffer() that leaves the entry marked in use *)
ReturnBufferPoolKeepsInUse(pool, b) == pool

(* returnBuffer() that marks the entry free and leaves its bytes *)
ReturnBufferPoolNoClear(pool, b) ==
  IF b \in PoolPtrs
  THEN [pool EXCEPT ![b].inUse = FALSE]
  ELSE pool

(* returnBuffer(b), lines 125-131: a pool entry is marked free and zeroed; *)
(* any other pointer leaves the pool alone (it is freed, line 134)         *)
ReturnBufferPool(pool, b) ==
  IF b \in PoolPtrs
  THEN [pool EXCEPT ![b] = [inUse |-> FALSE, bytes |-> Memset0(pool[b].bytes)]]
  ELSE pool

(* getBuffer() called; m is the outcome of heap_caps_malloc should the     *)
(* pool be exhausted: null, or a pointer not alive                         *)
GetBuffer(m) ==
  /\ m = 0 \/ (m \in HeapPtrs /\ m \notin heap)
  /\ got' = GetBufferPtr(bufferPool, m)
  /\ bufferPool' = GetBufferPool(bufferPool)
  /\ heap' = IF FirstFree(bufferPool) = 0 /\ m # 0 THEN heap \cup {m} ELSE heap
  /\ UNCHANGED engineVars
  /\ UNCHANGED configVars

(* the holder of pool buffer b writes the bytes src to it *)
WriteBuffer(b, src) ==
  /\ b \in PoolPtrs /\ bufferPool[b].inUse
  /\ bufferPool' = [bufferPool EXCEPT ![b].bytes = Memcpy(@, src, Len(src))]
  /\ UNCHANGED <<heap, got>>
  /\ UNCHANGED engineVars
  /\ UNCHANGED configVars

(* returnBuffer(b) called with a pool buffer or a one-off buffer *)
ReturnBuffer(b) ==
  /\ b \in PoolPtrs \/ b \in heap
  /\ bufferPool' = ReturnBufferPool(bufferPool, b)
  /\ heap' = heap \ {b}
  /\ UNCHANGED got
  /\ UNCHANGED engineVars
  /\ UNCHANGED configVars

-----------------------------------------------------------------------------
(* Interrupt context *)

(* pendingReceiveCount() as the completion callback runs it: the size of   *)
(* the queue when the semaphore can be taken, 0 when it cannot.            *)
CountOrZero == IF queueSemaphore = Free THEN Len(receiveQueue) ELSE 0

(* bool queueFull = pendingReceiveCount() >= _maxQueueSize *)
QueueFull(count) == count >= maxQueueSize

(* a push at the front of the queue instead of the back *)
PushFront(q, p) == <<p>> \o q

(* _receiveQueue.push(packet) *)
Push(q, p) == Append(q, p)

(* onSpiPreTransaction: the driver has set up the next queued descriptor.  *)
OnSpiPreTransaction ==
  /\ hw.installed /\ hw.queued > 0 /\ ~hw.loaded
  /\ isr.pc = "idle"
  /\ hw' = [hw EXCEPT !.loaded = TRUE]
  /\ transactionActive' = TRUE
  /\ UNCHANGED <<initialized, txBuffer, rxBuffer, txLength, dataReady,
                 needsNewTransaction, lastTransactionTime, transactionCount,
                 recoveryAttempts, receiveCallback, receiveQueue,
                 queueSemaphore, now, isr, task, created, lastDequeued,
                 delivered>>
  /\ UNCHANGED poolVars
  /\ UNCHANGED configVars
  /\ UNCHANGED deleted

(* lines 151-165, after pendingReceiveCount() has returned count: with the *)
(* queue not found full a buffer is taken from the pool, n bytes of the    *)
(* receive buffer src are copied into it and the packet is built from it.  *)
(* The callback goes on to its push, with the packet or with none.         *)
IsrAfterCheck(count, src, n, sent) ==
  LET b == GetBufferPtr(bufferPool, 0)
  IN  IF ~QueueFull(count) /\ b # 0
      THEN [pc |-> "push",
            packet |-> NewPacket(created + 1,
                                 Memcpy(bufferPool[b].bytes, src, n), n),
            rxBytes |-> n, sent |-> sent]
      ELSE [pc |-> "push", packet |-> NoPacket, rxBytes |-> n, sent |-> sent]

(* lines 155 and 164: the pool after getBuffer() and returnBuffer() *)
PoolAfterCheck(count) ==
  IF ~QueueFull(count)
  THEN ReturnBufferPool(GetBufferPool(bufferPool), GetBufferPtr(bufferPool, 0))
  ELSE bufferPool

(* a transfer that presents the transmit buffer only while the data-ready  *)
(* flag is set, and zeros otherwise                                        *)
PresentedWhenReady == IF dataReady THEN txBuffer ELSE <<>>

(* lines 250 and 402: every descriptor has tx_buffer = _txBuffer, so a     *)
(* transfer presents the transmit buffer as it is                          *)
Presented == txBuffer

(* onSpiTransaction, lines 138-165: the loaded descriptor has completed    *)
(* with the bytes rx received (trans_len = 8 * Len(rx)).  Activity is      *)
(* recorded; a transfer of no bytes returns at once.  Otherwise            *)
(* pendingReceiveCount() is called for the full check: with the semaphore  *)
(* free it is taken, the size read and the packet built; with the          *)
(* semaphore held by a task the callback sits in xSemaphoreTake.           *)
OnSpiTransaction(rx, maxT) ==
  /\ hw.installed /\ hw.loaded
  /\ isr.pc = "idle"
  /\ transactionCount < maxT
  /\ hw' = [hw EXCEPT !.loaded = FALSE, !.queued = @ - 1]
  /\ lastTransactionTime' = now
  /\ transactionActive' = FALSE
  /\ transactionCount' = transactionCount + 1
  /\ LET rxBytes == Len(rx)
     IN  IF rxBytes = 0
         THEN /\ UNCHANGED <<rxBuffer, isr, created, bufferPool>>
         ELSE /\ rxBuffer' = Memcpy(rxBuffer, rx, rxBytes)
              /\ IF queueSemaphore = Free
                 THEN /\ isr' = IsrAfterCheck(Len(receiveQueue), rxBuffer',
                                              rxBytes, Presented)
                      /\ bufferPool' = PoolAfterCheck(Len(receiveQueue))
                      /\ created' = IF isr'.packet # NoPacket
                                    THEN created + 1 ELSE created
                 ELSE /\ isr' = [pc |-> "wait", packet |-> NoPacket,
                                 rxBytes |-> rxBytes, sent |-> Presented]
                      /\ UNCHANGED <<created, bufferPool>>
  /\ UNCHANGED <<initialized, txBuffer, txLength, dataReady,
                 needsNewTransaction, recoveryAttempts, receiveCallback,
                 receiveQueue, queueSemaphore, now, task, lastDequeued,
                 delivered, heap, got>>
  /\ UNCHANGED configVars
  /\ UNCHANGED deleted

(* pendingReceiveCount() in the callback, lines 381-386, after a wait: the *)
(* size of the queue when the semaphore has come free, 0 when the 100 ms   *)
(* have run out; then lines 151-165.                                       *)
OnSpiTransactionCount ==
  /\ isr.pc = "wait"
  /\ isr' = IsrAfterCheck(CountOrZero, rxBuffer, isr.rxBytes, isr.sent)
  /\ bufferPool' = PoolAfterCheck(CountOrZero)
  /\ created' = IF isr'.packet # NoPacket THEN created + 1 ELSE created
  /\ UNCHANGED <<initialized, txBuffer, rxBuffer, txLength, dataReady,
                 needsNewTransaction, lastTransactionTime, transactionActive,
                 transactionCount, recoveryAttempts, receiveCallback,
                 receiveQueue, queueSemaphore, hw, now, task, lastDequeued,
                 delivered, heap, got>>
  /\ UNCHANGED configVars
  /\ UNCHANGED deleted

(* a take in the callback that never fails *)
TakeFromISRAlways == TRUE

(* line 169: xSemaphoreTakeFromISR succeeds when no task holds the         *)
(* semaphore, and fails at once otherwise                                  *)
TakeFromISR == queueSemaphore = Free

(* onSpiTransaction, lines 167-187: the push under a non-blocking take of  *)
(* the semaphore (the packet is deleted when the take fails), then the     *)
(* receive buffer is cleared, the data-ready flag reset and a new          *)
(* transaction asked for.                                                  *)
OnSpiTransactionFinish ==
  /\ isr.pc = "push"
  /\ receiveQueue' = IF isr.packet # NoPacket /\ TakeFromISR
                     THEN Push(receiveQueue, isr.packet)
                     ELSE receiveQueue
  /\ deleted' = IF isr.packet # NoPacket /\ ~TakeFromISR
                THEN deleted \cup {isr.packet.id}
                ELSE deleted
  /\ rxBuffer' = Memset0(rxBuffer)
  /\ dataReady' = FALSE
  /\ needsNewTransaction' = TRUE
  /\ isr' = IdleIsr
  /\ UNCHANGED <<initialized, txBuffer, txLength, lastTransactionTime,
                 transactionActive, transactionCount, recoveryAttempts,
                 receiveCallback, queueSemaphore, hw, now, task, created,
                 lastDequeued, delivered>>
  /\ UNCHANGED poolVars
  /\ UNCHANGED configVars

-----------------------------------------------------------------------------
(* Task context *)

(* task t returns v from the method it is in *)
Return(t, op, v) ==
  [task EXCEPT ![t] = [IdleTask EXCEPT !.op = op, !.ret = Bool(v)]]

(* task t returns the size_t n from method op *)
ReturnCount(t, op, n) ==
  [task EXCEPT ![t] = [IdleTask EXCEPT !.op = op, !.count = n]]

(* task t returns from the void method op *)
ReturnVoid(t, op) ==
  [task EXCEPT ![t] = [IdleTask EXCEPT !.op = op]]

(* task t moves to position pc of method op *)
Goto(t, op, pc) ==
  [task EXCEPT ![t].pc = pc, ![t].op = op, ![t].ret = None, ![t].count = 0]

Idle(t) == task[t].pc = "idle"

(* spi_slave_initialize (line 234) succeeds when the driver lets it (ok)   *)
(* and the host is not claimed already by an installed driver.             *)
DriverStarts(ok) == ok /\ ~hw.installed

(* init(): true at once when already initialized; otherwise the driver is  *)
(* started and descriptors are queued, n of the three before a             *)
(* spi_slave_queue_trans fails (n = 3: none fails), and only with all      *)
(* three queued the engine is marked initialized.                          *)
InitReturns(ok, n) ==
  initialized \/ (DriverStarts(ok) /\ n = InitialTransactions)

InitHw(ok, n) ==
  IF ~initialized /\ DriverStarts(ok)
  THEN [installed |-> TRUE, queued |-> n, loaded |-> FALSE]
  ELSE hw

(* a pin argument (int) as the uint8_t member keeps it *)
Uint8(x) == x % 256

(* lines 204-210: the mode, and each pin or its default from Config.h when *)
(* the argument is -1, as the uint8_t members store them                   *)
StoredPins(a) ==
  [sck  |-> Uint8(IF a.sck # -1 THEN a.sck ELSE SPI_SCK_PIN),
   miso |-> Uint8(IF a.miso # -1 THEN a.miso ELSE SPI_MISO_PIN),
   mosi |-> Uint8(IF a.mosi # -1 THEN a.mosi ELSE SPI_MOSI_PIN),
   cs   |-> Uint8(IF a.cs # -1 THEN a.cs ELSE SPI_ESP32_SS),
   mode |-> a.mode]

(* lines 199-210: an initialized engine keeps its pins and mode *)
InitPins(a) == IF initialized THEN pins ELSE StoredPins(a)

(* lines 216-234: _busConfig and _slaveConfig are filled from the members  *)
(* just stored and given to spi_slave_initialize                           *)
InitDriverPins(a, ok) ==
  IF ~initialized /\ DriverStarts(ok) THEN StoredPins(a) ELSE driverPins

init(t, a, ok, n) ==
  /\ Idle(t)
  /\ hw' = InitHw(ok, n)
  /\ initialized' = InitReturns(ok, n)
  /\ pins' = InitPins(a)
  /\ driverPins' = InitDriverPins(a, ok)
  /\ task' = Return(t, "init", InitReturns(ok, n))
  /\ UNCHANGED <<txBuffer, rxBuffer, txLength, dataReady, needsNewTransaction,
                 lastTransactionTime, transactionActive, transactionCount,
                 recoveryAttempts, receiveCallback, receiveQueue,
                 queueSemaphore, now, isr, created, lastDequeued, delivered>>
  /\ UNCHANGED poolVars
  /\ UNCHANGED deleted

(* the argument test without the bound on the length *)
PrepareAcceptsAnyLength(txData, length) ==
  /\ initialized
  /\ ~(txData.null \/ length = 0)

(* prepareDataToSend(txData, length), lines 261-269: the two rejections *)
PrepareAccepts(txData, length) ==
  /\ initialized
  /\ ~(txData.null \/ length = 0 \/ length > bufferSize)

(* the copy into the transmit buffer without the memset before it *)
StagedBufferNoClear(txData, length) ==
  Memcpy(txBuffer, txData.bytes, length)

(* memset(_txBuffer, 0, _bufferSize); memcpy(_txBuffer, txData, length) *)
StagedBuffer(txData, length) ==
  Memcpy(Memset0(txBuffer), txData.bytes, length)

PrepareDataToSend(t, txData, length) ==
  /\ Idle(t)
  /\ IF PrepareAccepts(txData, length)
     THEN /\ txBuffer' = StagedBuffer(txData, length)
          /\ txLength' = length
          /\ dataReady' = TRUE
          /\ task' = Return(t, "prepareDataToSend", TRUE)
     ELSE /\ UNCHANGED <<txBuffer, txLength, dataReady>>
          /\ task' = Return(t, "prepareDataToSend", FALSE)
  /\ UNCHANGED <<initialized, rxBuffer, needsNewTransaction,
                 lastTransactionTime, transactionActive, transactionCount,
                 recoveryAttempts, receiveCallback, receiveQueue,
                 queueSemaphore, hw, now, isr, created, lastDequeued,
                 delivered>>
  /\ UNCHANGED poolVars
  /\ UNCHANGED configVars
  /\ UNCHANGED deleted

(* isReadyToSend(), line 390 *)
IsReadyToSend == initialized /\ ~dataReady

(* pendingReceiveCount(), lines 377-387 *)
PendingTake(t) ==
  /\ Idle(t)
  /\ queueSemaphore = Free
  /\ queueSemaphore' = t
  /\ task' = Goto(t, "pendingReceiveCount", "prcRead")
  /\ UNCHANGED <<initialized, txBuffer, rxBuffer, txLength, dataReady,
                 needsNewTransaction, lastTransactionTime, transactionActive,
                 transactionCount, recoveryAttempts, receiveCallback,
                 receiveQueue, hw, now, isr, created, lastDequeued, delivered>>
  /\ UNCHANGED poolVars
  /\ UNCHANGED configVars
  /\ UNCHANGED deleted

(* the take times out after 100 ms: count stays 0 *)
PendingTimeout(t) ==
  /\ Idle(t)
  /\ queueSemaphore # Free
  /\ task' = ReturnCount(t, "pendingReceiveCount", 0)
  /\ UNCHANGED <<initialized, txBuffer, rxBuffer, txLength, dataReady,
                 needsNewTransaction, lastTransactionTime, transactionActive,
                 transactionCount, recoveryAttempts, receiveCallback,
                 receiveQueue, queueSemaphore, hw, now, isr, created,
                 lastDequeued, delivered>>
  /\ UNCHANGED poolVars
  /\ UNCHANGED configVars
  /\ UNCHANGED deleted

PendingRead(t) ==
  /\ task[t].pc = "prcRead"
  /\ queueSemaphore' = Free
  /\ task' = ReturnCount(t, "pendingReceiveCount", Len(receiveQueue))
  /\ UNCHANGED <<initialized, txBuffer, rxBuffer, txLength, dataReady,
                 needsNewTransaction, lastTransactionTime, transactionActive,
                 transactionCount, recoveryAttempts, receiveCallback,
                 receiveQueue, hw, now, isr, created, lastDequeued, delivered>>
  /\ UNCHANGED poolVars
  /\ UNCHANGED configVars
  /\ UNCHANGED deleted

(* the percentage taken of the pool size instead of the queue capacity *)
BufferStatusOfPoolSize(queueSize) ==
  ((queueSize * 100) \div SPI_BUFFER_POOL_SIZE) % 256

(* getBufferStatus(): (queueSize * 100) / _maxQueueSize as uint8_t *)
BufferStatus(queueSize) == ((queueSize * 100) \div maxQueueSize) % 256

(* getBufferStatus() called by a task, lines 368-371: pendingReceiveCount() *)
(* takes the semaphore ...                                                 *)
GetBufferStatusTake(t) ==
  /\ Idle(t)
  /\ queueSemaphore = Free
  /\ queueSemaphore' = t
  /\ task' = Goto(t, "getBufferStatus", "gbsRead")
  /\ UNCHANGED <<initialized, txBuffer, rxBuffer, txLength, dataReady,
                 needsNewTransaction, lastTransactionTime, transactionActive,
                 transactionCount, recoveryAttempts, receiveCallback,
                 receiveQueue, hw, now, isr, created, lastDequeued, delivered>>
  /\ UNCHANGED poolVars
  /\ UNCHANGED configVars
  /\ UNCHANGED deleted

(* ... or gives up after 100 ms and counts 0 ...                           *)
GetBufferStatusTimeout(t) ==
  /\ Idle(t)
  /\ queueSemaphore # Free
  /\ task' = ReturnCount(t, "getBufferStatus", BufferStatus(0))
  /\ UNCHANGED <<initialized, txBuffer, rxBuffer, txLength, dataReady,
                 needsNewTransaction, lastTransactionTime, transactionActive,
                 transactionCount, recoveryAttempts, receiveCallback,
                 receiveQueue, queueSemaphore, hw, now, isr, created,
                 lastDequeued, delivered>>
  /\ UNCHANGED poolVars
  /\ UNCHANGED configVars
  /\ UNCHANGED deleted

(* ... reads the size, gives the semaphore back, and the percentage is     *)
(* returned                                                                *)
GetBufferStatusRead(t) ==
  /\ task[t].pc = "gbsRead"
  /\ queueSemaphore' = Free
  /\ task' = ReturnCount(t, "getBufferStatus",
                         BufferStatus(Len(receiveQueue)))
  /\ UNCHANGED <<initialized, txBuffer, rxBuffer, txLength, dataReady,
                 needsNewTransaction, lastTransactionTime, transactionActive,
                 transactionCount, recoveryAttempts, receiveCallback,
                 receiveQueue, hw, now, isr, created, lastDequeued, delivered>>
  /\ UNCHANGED poolVars
  /\ UNCHANGED configVars
  /\ UNCHANGED deleted

(* setReceiveCallback(callback): cb says whether callback is non-empty *)
SetReceiveCallback(t, cb) ==
  /\ Idle(t)
  /\ receiveCallback' = cb
  /\ task' = ReturnVoid(t, "setReceiveCallback")
  /\ UNCHANGED <<initialized, txBuffer, rxBuffer, txLength, dataReady,
                 needsNewTransaction, lastTransactionTime, transactionActive,
                 transactionCount, recoveryAttempts, receiveQueue,
                 queueSemaphore, hw, now, isr, created, lastDequeued,
                 delivered>>
  /\ UNCHANGED poolVars
  /\ UNCHANGED configVars
  /\ UNCHANGED deleted

(* a ping answered with a pong that carries no buffer status *)
ReplyWithoutStatus(data, length) ==
  IF length > 0 /\ ByteAt(data, 1) < 255 /\ ByteAt(data, 1) = PING
  THEN <<PONG, 0, 0, 0>>
  ELSE <<>>

(* every command byte below 0xFF answered with a pong *)
ReplyToEveryCommand(data, length) ==
  IF length > 0 /\ ByteAt(data, 1) < 255
  THEN <<PONG, 0, BufferStatus(CountOrZero), 0>>
  ELSE <<>>

(* handleReceivedData with no callback registered: the reply staged for    *)
(* the packet, empty when the built-in handling stages nothing.            *)
Reply(data, length) ==
  IF length > 0 /\ ByteAt(data, 1) < 255 /\ ByteAt(data, 1) = PING
  THEN <<PONG, 0, BufferStatus(CountOrZero), 0>>
  ELSE <<>>

(* a pop that leaves the front packet in the queue *)
PopNothing(q) == q

(* _receiveQueue.front() and _receiveQueue.pop() *)
Front(q) == Head(q)
Pop(q) == Tail(q)

(* processNextReceive(), line 289: the unlocked look at the queue *)
ProcessCheck(t) ==
  /\ Idle(t)
  /\ task' = IF receiveQueue = <<>>
             THEN Return(t, "processNextReceive", FALSE)
             ELSE Goto(t, "processNextReceive", "pnrTake")
  /\ UNCHANGED <<initialized, txBuffer, rxBuffer, txLength, dataReady,
                 needsNewTransaction, lastTransactionTime, transactionActive,
                 transactionCount, recoveryAttempts, receiveCallback,
                 receiveQueue, queueSemaphore, hw, now, isr, created,
                 lastDequeued, delivered>>
  /\ UNCHANGED poolVars
  /\ UNCHANGED configVars
  /\ UNCHANGED deleted

(* line 294: the take succeeds *)
ProcessTake(t) ==
  /\ task[t].pc = "pnrTake"
  /\ queueSemaphore = Free
  /\ queueSemaphore' = t
  /\ task' = Goto(t, "processNextReceive", "pnrPop")
  /\ UNCHANGED <<initialized, txBuffer, rxBuffer, txLength, dataReady,
                 needsNewTransaction, lastTransactionTime, transactionActive,
                 transactionCount, recoveryAttempts, receiveCallback,
                 receiveQueue, hw, now, isr, created, lastDequeued, delivered>>
  /\ UNCHANGED poolVars
  /\ UNCHANGED configVars
  /\ UNCHANGED deleted

(* lines 294-297: the take times out after 100 ms *)
ProcessTimeout(t) ==
  /\ task[t].pc = "pnrTake"
  /\ queueSemaphore # Free
  /\ task' = Return(t, "processNextReceive", FALSE)
  /\ UNCHANGED <<initialized, txBuffer, rxBuffer, txLength, dataReady,
                 needsNewTransaction, lastTransactionTime, transactionActive,
                 transactionCount, recoveryAttempts, receiveCallback,
                 receiveQueue, queueSemaphore, hw, now, isr, created,
                 lastDequeued, delivered>>
  /\ UNCHANGED poolVars
  /\ UNCHANGED configVars
  /\ UNCHANGED deleted

(* lines 299-309: under the semaphore, look again, take the front packet *)
ProcessPop(t) ==
  /\ task[t].pc = "pnrPop"
  /\ queueSemaphore' = Free
  /\ IF receiveQueue = <<>>
     THEN /\ task' = Return(t, "processNextReceive", FALSE)
          /\ UNCHANGED <<receiveQueue, lastDequeued>>
     ELSE /\ task' = [task EXCEPT ![t].pc = "pnrHandle",
                                  ![t].packet = Front(receiveQueue)]
          /\ receiveQueue' = Pop(receiveQueue)
          /\ lastDequeued' = Front(receiveQueue).id
  /\ UNCHANGED <<initialized, txBuffer, rxBuffer, txLength, dataReady,
                 needsNewTransaction, lastTransactionTime, transactionActive,
                 transactionCount, recoveryAttempts, receiveCallback, hw, now,
                 isr, created, delivered>>
  /\ UNCHANGED poolVars
  /\ UNCHANGED configVars
  /\ UNCHANGED deleted

(* the callback test that never finds a callback *)
HasNoReceiveCallback == FALSE

(* line 323: if (_receiveCallback) *)
HasReceiveCallback == receiveCallback

(* lines 311-316: handleReceivedData(packet->data, packet->length), then   *)
(* the packet is deleted.  A registered callback is given the packet; with *)
(* none, a ping is answered through prepareDataToSend.                     *)
ProcessHandle(t) ==
  /\ task[t].pc = "pnrHandle"
  /\ LET p == task[t].packet
         r == Reply(p.data, p.length)
     IN  IF HasReceiveCallback
         THEN /\ delivered' =
                   Append(delivered, [data |-> p.data, length |-> p.length])
              /\ UNCHANGED <<txBuffer, txLength, dataReady>>
         ELSE /\ UNCHANGED delivered
              /\ IF r # <<>> /\ PrepareAccepts(Ptr(r), Len(r))
                 THEN /\ txBuffer' = StagedBuffer(Ptr(r), Len(r))
                      /\ txLength' = Len(r)
                      /\ dataReady' = TRUE
                 ELSE UNCHANGED <<txBuffer, txLength, dataReady>>
  /\ deleted' = deleted \cup {task[t].packet.id}
  /\ task' = Return(t, "processNextReceive", TRUE)
  /\ UNCHANGED <<initialized, rxBuffer, needsNewTransaction,
                 lastTransactionTime, transactionActive, transactionCount,
                 recoveryAttempts, receiveCallback, receiveQueue,
                 queueSemaphore, hw, now, isr, created, lastDequeued>>
  /\ UNCHANGED poolVars
  /\ UNCHANGED configVars

(* a driver queue that takes a descriptor whenever the driver is installed *)
CanSubmitAlways == hw.installed

(* spi_slave_queue_trans(HSPI_HOST, &_transaction, 500) succeeds while the *)
(* driver is installed and its queue (queue_size = 5) has room.            *)
CanSubmit == hw.installed /\ hw.queued < DriverQueueSize

(* the test for a submission that does not look at the flag *)
EnsureWantsAlways == initialized

(* lines 394-398: a descriptor is submitted only by an initialized engine  *)
(* whose needs-new-transaction flag is set                                 *)
EnsureWants == initialized /\ needsNewTransaction

(* ensureTransactionQueued(), lines 393-410 and 417 *)
EnsureSubmit(t) ==
  /\ Idle(t)
  /\ IF EnsureWants /\ CanSubmit
     THEN /\ hw' = [hw EXCEPT !.queued = @ + 1]
          /\ task' = Goto(t, "ensureTransactionQueued", "etqClear")
     ELSE /\ UNCHANGED hw
          /\ task' = Return(t, "ensureTransactionQueued", FALSE)
  /\ UNCHANGED <<initialized, txBuffer, rxBuffer, txLength, dataReady,
                 needsNewTransaction, lastTransactionTime, transactionActive,
                 transactionCount, recoveryAttempts, receiveCallback,
                 receiveQueue, queueSemaphore, now, isr, created,
                 lastDequeued, delivered>>
  /\ UNCHANGED poolVars
  /\ UNCHANGED configVars
  /\ UNCHANGED deleted

(* lines 412-414, also when called from the watchdog (which returns true) *)
EnsureClear(t) ==
  /\ task[t].pc = "etqClear"
  /\ needsNewTransaction' = FALSE
  /\ task' = Return(t, task[t].op, TRUE)
  /\ UNCHANGED <<initialized, txBuffer, rxBuffer, txLength, dataReady,
                 lastTransactionTime, transactionActive, transactionCount,
                 recoveryAttempts, receiveCallback, receiveQueue,
                 queueSemaphore, hw, now, isr, created, lastDequeued,
                 delivered>>
  /\ UNCHANGED poolVars
  /\ UNCHANGED configVars
  /\ UNCHANGED deleted

(* checkAndRecoverFromStalledTransaction(), lines 421-426: the clock read *)
CheckStart(t) ==
  /\ Idle(t)
  /\ task' = IF ~initialized
             THEN Return(t, "checkAndRecover", FALSE)
             ELSE [task EXCEPT ![t].pc = "carCheck",
                               ![t].op = "checkAndRecover",
                               ![t].ret = None, ![t].count = 0,
                               ![t].currentTime = now]
  /\ UNCHANGED <<initialized, txBuffer, rxBuffer, txLength, dataReady,
                 needsNewTransaction, lastTransactionTime, transactionActive,
                 transactionCount, recoveryAttempts, receiveCallback,
                 receiveQueue, queueSemaphore, hw, now, isr, created,
                 lastDequeued, delivered>>
  /\ UNCHANGED poolVars
  /\ UNCHANGED configVars
  /\ UNCHANGED deleted

(* the stalled-transfer test that does not look at the active flag *)
StalledActiveAnyFlag(timeSince) == Above32(timeSince, transactionTimeout)

(* the stalled-transfer test with twice the timeout *)
StalledActiveTwiceTimeout(timeSince) ==
  transactionActive /\ Above32(timeSince, transactionTimeout * 2)

(* line 432: a transfer marked active and silent for more than the timeout *)
StalledActive(timeSince) ==
  transactionActive /\ Above32(timeSince, transactionTimeout)

(* the silence test with three times the timeout *)
LinkSilentThreeTimeouts(timeSince) ==
  /\ Above32(timeSince, transactionTimeout * 3)
  /\ initialized /\ transactionCount > 0

(* the silence test without the test for a completed transfer *)
LinkSilentAnyCount(timeSince) ==
  /\ Above32(timeSince, transactionTimeout * 2)
  /\ initialized

(* lines 442-444: silence for more than twice the timeout, after at least  *)
(* one completed transfer                                                  *)
LinkSilent(timeSince) ==
  /\ Above32(timeSince, transactionTimeout * 2)
  /\ initialized /\ transactionCount > 0

(* a reset that does not count its attempt *)
CountAttemptNever(n) == n

(* line 464: ++_recoveryAttempts *)
CountAttempt(n) == n + 1

(* resetSPIInterface(), lines 463-470: count the attempt, free the driver *)
ResetBegin(t) ==
  /\ recoveryAttempts < MaxRecoveries
  /\ recoveryAttempts' = CountAttempt(recoveryAttempts)
  /\ hw' = IF initialized THEN HwOff ELSE hw
  /\ initialized' = FALSE
  /\ task' = [task EXCEPT ![t].pc = "resetInit", ![t].ret = None,
                          ![t].count = 0,
                          ![t].op = IF Idle(t) THEN "resetSPIInterface" ELSE @]

(* lines 426-459: the three situations of the watchdog *)
CheckDecide(t) ==
  /\ task[t].pc = "carCheck"
  /\ LET timeSince == Sub32(task[t].currentTime, lastTransactionTime)
         reset == StalledActive(timeSince) \/ LinkSilent(timeSince)
     IN  \/ /\ reset
            /\ ResetBegin(t)
            /\ UNCHANGED needsNewTransaction
         \/ /\ ~reset /\ needsNewTransaction
            /\ IF initialized /\ CanSubmit
               THEN /\ hw' = [hw EXCEPT !.queued = @ + 1]
                    /\ task' = Goto(t, "checkAndRecover", "etqClear")
               ELSE /\ UNCHANGED hw
                    /\ task' = Return(t, "checkAndRecover", TRUE)
            /\ UNCHANGED <<initialized, recoveryAttempts, needsNewTransaction>>
         \/ /\ ~reset /\ ~needsNewTransaction
            /\ task' = Return(t, "checkAndRecover", FALSE)
            /\ UNCHANGED <<initialized, recoveryAttempts, hw,
                           needsNewTransaction>>
  /\ UNCHANGED <<txBuffer, rxBuffer, txLength, dataReady,
                 lastTransactionTime, transactionActive, transactionCount,
                 receiveCallback, receiveQueue, queueSemaphore, now, isr,
                 created, lastDequeued, delivered>>
  /\ UNCHANGED poolVars
  /\ UNCHANGED configVars
  /\ UNCHANGED deleted

(* resetSPIInterface() called by a task *)
ResetSPIInterface(t) ==
  /\ Idle(t)
  /\ ResetBegin(t)
  /\ UNCHANGED <<txBuffer, rxBuffer, txLength, dataReady,
                 needsNewTransaction, lastTransactionTime, transactionActive,
                 transactionCount, receiveCallback, receiveQueue,
                 queueSemaphore, now, isr, created, lastDequeued, delivered>>
  /\ UNCHANGED poolVars
  /\ UNCHANGED configVars
  /\ UNCHANGED deleted

(* a reset that starts the driver again with the default arguments *)
ResetArgsDefault == DefaultArgs

(* line 476: init(_sckPin, _misoPin, _mosiPin, _csPin, _mode) *)
ResetArgs == pins

(* lines 472-478 and 504-508: after the delay, init() with the stored pins *)
ResetInit(t, ok, n) ==
  /\ task[t].pc = "resetInit"
  /\ hw' = InitHw(ok, n)
  /\ initialized' = InitReturns(ok, n)
  /\ pins' = InitPins(ResetArgs)
  /\ driverPins' = InitDriverPins(ResetArgs, ok)
  /\ task' = IF InitReturns(ok, n)
             THEN [task EXCEPT ![t].pc = "resetClear"]
             ELSE Return(t, task[t].op, FALSE)
  /\ UNCHANGED <<txBuffer, rxBuffer, txLength, dataReady, needsNewTransaction,
                 lastTransactionTime, transactionActive, transactionCount,
                 recoveryAttempts, receiveCallback, receiveQueue,
                 queueSemaphore, now, isr, created, lastDequeued, delivered>>
  /\ UNCHANGED poolVars
  /\ UNCHANGED deleted

(* lines 481-489: transaction tracking and both buffers are reset *)
ResetClear(t) ==
  /\ task[t].pc = "resetClear"
  /\ transactionActive' = FALSE
  /\ lastTransactionTime' = now
  /\ txBuffer' = Memset0(txBuffer)
  /\ rxBuffer' = Memset0(rxBuffer)
  /\ txLength' = 0
  /\ dataReady' = FALSE
  /\ task' = [task EXCEPT ![t].pc = "resetTake"]
  /\ UNCHANGED <<initialized, needsNewTransaction, transactionCount,
                 recoveryAttempts, receiveCallback, receiveQueue,
                 queueSemaphore, hw, now, isr, created, lastDequeued,
                 delivered>>
  /\ UNCHANGED poolVars
  /\ UNCHANGED configVars
  /\ UNCHANGED deleted

(* line 492: the take succeeds *)
ResetTake(t) ==
  /\ task[t].pc = "resetTake"
  /\ queueSemaphore = Free
  /\ queueSemaphore' = t
  /\ task' = [task EXCEPT ![t].pc = "resetDrain"]
  /\ UNCHANGED <<initialized, txBuffer, rxBuffer, txLength, dataReady,
                 needsNewTransaction, lastTransactionTime, transactionActive,
                 transactionCount, recoveryAttempts, receiveCallback,
                 receiveQueue, hw, now, isr, created, lastDequeued, delivered>>
  /\ UNCHANGED poolVars
  /\ UNCHANGED configVars
  /\ UNCHANGED deleted

(* line 492: the take times out after 1000 ms, the drain is skipped *)
ResetTimeout(t) ==
  /\ task[t].pc = "resetTake"
  /\ queueSemaphore # Free
  /\ task' = [task EXCEPT ![t].pc = "resetStage"]
  /\ UNCHANGED <<initialized, txBuffer, rxBuffer, txLength, dataReady,
                 needsNewTransaction, lastTransactionTime, transactionActive,
                 transactionCount, recoveryAttempts, receiveCallback,
                 receiveQueue, queueSemaphore, hw, now, isr, created,
                 lastDequeued, delivered>>
  /\ UNCHANGED poolVars
  /\ UNCHANGED configVars
  /\ UNCHANGED deleted

(* a drain that pops the packets and deletes none *)
DrainedNone(q) == {}

(* lines 493-497: the packets the drain loop pops and deletes *)
Drained(q) == {q[i].id : i \in DOMAIN q}

(* lines 493-498: every queued packet is popped and deleted *)
ResetDrain(t) ==
  /\ task[t].pc = "resetDrain"
  /\ receiveQueue' = <<>>
  /\ deleted' = deleted \cup Drained(receiveQueue)
  /\ queueSemaphore' = Free
  /\ task' = [task EXCEPT ![t].pc = "resetStage"]
  /\ UNCHANGED <<initialized, txBuffer, rxBuffer, txLength, dataReady,
                 needsNewTransaction, lastTransactionTime, transactionActive,
                 transactionCount, recoveryAttempts, receiveCallback, hw, now,
                 isr, created, lastDequeued, delivered>>
  /\ UNCHANGED poolVars
  /\ UNCHANGED configVars

(* lines 501-503 and 508: the recognizable pattern is staged *)
ResetStage(t) ==
  /\ task[t].pc = "resetStage"
  /\ IF PrepareAccepts(Ptr(Beacon), Len(Beacon))
     THEN /\ txBuffer' = StagedBuffer(Ptr(Beacon), Len(Beacon))
          /\ txLength' = Len(Beacon)
          /\ dataReady' = TRUE
     ELSE UNCHANGED <<txBuffer, txLength, dataReady>>
  /\ task' = Return(t, task[t].op, TRUE)
  /\ UNCHANGED <<initialized, rxBuffer, needsNewTransaction,
                 lastTransactionTime, transactionActive, transactionCount,
                 recoveryAttempts, receiveCallback, receiveQueue,
                 queueSemaphore, hw, now, isr, created, lastDequeued,
                 delivered>>
  /\ UNCHANGED poolVars
  /\ UNCHANGED configVars
  /\ UNCHANGED deleted

(* millis() advances *)
Tick ==
  /\ now < MaxTicks * 1000
  /\ now' = now + 1000
  /\ UNCHANGED <<initialized, txBuffer, rxBuffer, txLength, dataReady,
                 needsNewTransaction, lastTransactionTime, transactionActive,
                 transactionCount, recoveryAttempts, receiveCallback,
                 receiveQueue, queueSemaphore, hw, isr, task, created,
                 lastDequeued, delivered>>
  /\ UNCHANGED poolVars
  /\ UNCHANGED configVars
  /\ UNCHANGED deleted

-----------------------------------------------------------------------------
(* The state after construction (lines 14-69) *)
Init ==
  /\ initialized = FALSE
  /\ txBuffer = <<>>
  /\ rxBuffer = <<>>
  /\ txLength = 0
  /\ dataReady = FALSE
  /\ needsNewTransaction = FALSE
  /\ lastTransactionTime = 0
  /\ transactionActive = FALSE
  /\ transactionCount = 0
  /\ recoveryAttempts = 0
  /\ receiveCallback = FALSE
  /\ receiveQueue = <<>>
  /\ queueSemaphore = Free
  /\ hw = HwOff
  /\ now = 0
  /\ isr = IdleIsr
  /\ task = [t \in Tasks |-> IdleTask]
  /\ created = 0
  /\ lastDequeued = 0
  /\ delivered = <<>>
  /\ deleted = {}
  /\ bufferPool = FreshPool
  /\ heap = {}
  /\ got = 0
  /\ pins = NoPins
  /\ driverPins = NoPins

-----------------------------------------------------------------------------
(* Inputs *)

(* what a completed transfer received: nothing, a ping, a camera request *)
RxInputs == {<<>>, <<PING>>, <<CAMERA_DATA_REQUEST, 7>>}

(* arguments of prepareDataToSend: a null pointer, no bytes, two payloads  *)
(* of different lengths, and one longer than the buffer                    *)
SendInputs ==
  { [data |-> NullPtr, length |-> 4],
    [data |-> Ptr(<<7, 7>>), length |-> 0],
    [data |-> Ptr(<<7, 7>>), length |-> 2],
    [data |-> Ptr(<<9, 9, 9>>), length |-> 3],
    [data |-> Ptr(<<9, 9, 9>>), length |-> bufferSize + 1] }

-----------------------------------------------------------------------------
(* Specifications *)

(* The callbacks of the driver, for at most maxT completed transfers. *)
Callbacks(maxT, inputs) ==
  \/ OnSpiPreTransaction
  \/ \E rx \in inputs : OnSpiTransaction(rx, maxT)
  \/ OnSpiTransactionCount
  \/ OnSpiTransactionFinish

(* The transfer path: one task initializes, stages payloads, keeps the     *)
(* driver supplied with descriptors and consumes the queue.                *)
Next ==
  \/ Callbacks(MaxTransactions, RxInputs)
  \/ \E t \in {"t1"} :
       \/ \E ok \in BOOLEAN : init(t, DefaultArgs, ok, InitialTransactions)
       \/ \E d \in SendInputs : PrepareDataToSend(t, d.data, d.length)
       \/ PendingTake(t) \/ PendingRead(t)
       \/ ProcessCheck(t) \/ ProcessTake(t) \/ ProcessPop(t)
       \/ ProcessHandle(t)
       \/ EnsureSubmit(t) \/ EnsureClear(t)

Spec == Init /\ [][Next]_vars

(* Two tasks on the queue: both count and consume, against the callbacks. *)
NextQueue ==
  \/ Callbacks(MaxTransactions, {<<>>, <<PING>>})
  \/ \E t \in Tasks :
       \/ init(t, DefaultArgs, TRUE, InitialTransactions)
       \/ PendingTake(t) \/ PendingTimeout(t) \/ PendingRead(t)
       \/ ProcessCheck(t) \/ ProcessTake(t) \/ ProcessTimeout(t)
       \/ ProcessPop(t) \/ ProcessHandle(t)
       \/ EnsureSubmit(t) \/ EnsureClear(t)

SpecQueue == Init /\ [][NextQueue]_vars

(* A producer that outruns the consumer: enough completed transfers to     *)
(* fill the queue, and a task that only reads the queue length.            *)
NextOverflow ==
  \/ Callbacks(maxQueueSize + 2, {<<PING>>})
  \/ \E t \in {"t1"} :
       \/ init(t, DefaultArgs, TRUE, InitialTransactions)
       \/ PendingTake(t) \/ PendingRead(t)
       \/ GetBufferStatusTake(t) \/ GetBufferStatusRead(t)
       \/ EnsureSubmit(t) \/ EnsureClear(t)

SpecOverflow == Init /\ [][NextOverflow]_vars

(* The watchdog: one task polls as the clock advances. *)
NextWatchdog ==
  \/ Callbacks(MaxWatchdogTransactions, {<<>>, <<PING>>})
  \/ Tick
  \/ \E t \in {"t1"} :
       \/ \E ok \in BOOLEAN : init(t, DefaultArgs, ok, InitialTransactions)
       \/ CheckStart(t) \/ CheckDecide(t)
       \/ ResetSPIInterface(t)
       \/ \E ok \in BOOLEAN : ResetInit(t, ok, InitialTransactions)
       \/ ResetClear(t) \/ ResetTake(t) \/ ResetDrain(t) \/ ResetStage(t)
       \/ EnsureSubmit(t) \/ EnsureClear(t)

SpecWatchdog == Init /\ [][NextWatchdog]_vars

(* Recovery while another task uses the queue. *)
NextReset ==
  \/ Callbacks(MaxTransactions, {<<PING>>})
  \/ \E t \in {"t1"} :
       \/ init(t, DefaultArgs, TRUE, InitialTransactions)
       \/ ResetSPIInterface(t)
       \/ \E ok \in BOOLEAN : ResetInit(t, ok, InitialTransactions)
       \/ ResetClear(t) \/ ResetTake(t) \/ ResetTimeout(t)
       \/ ResetDrain(t) \/ ResetStage(t)
       \/ EnsureSubmit(t) \/ EnsureClear(t)
  \/ \E t \in {"t2"} :
       \/ PendingTake(t) \/ PendingTimeout(t) \/ PendingRead(t)
       \/ GetBufferStatusTake(t) \/ GetBufferStatusTimeout(t)
       \/ GetBufferStatusRead(t)

SpecReset == Init /\ [][NextReset]_vars

(* The consumer that also recovers: one task dispatches the queue, with or *)
(* without a receive callback, and resets the interface.                   *)
NextServe ==
  \/ Callbacks(MaxTransactions, {<<PING>>, <<CAMERA_DATA_REQUEST, 7>>})
  \/ \E t \in {"t1"} :
       \/ init(t, DefaultArgs, TRUE, InitialTransactions)
       \/ \E cb \in BOOLEAN : SetReceiveCallback(t, cb)
       \/ ProcessCheck(t) \/ ProcessTake(t) \/ ProcessPop(t)
       \/ ProcessHandle(t)
       \/ ResetSPIInterface(t)
       \/ \E ok \in BOOLEAN : ResetInit(t, ok, InitialTransactions)
       \/ ResetClear(t) \/ ResetTake(t) \/ ResetDrain(t) \/ ResetStage(t)
       \/ EnsureSubmit(t) \/ EnsureClear(t)

SpecServe == Init /\ [][NextServe]_vars

(* Two tasks that stage payloads, the first a longer one than the second,  *)
(* which also reads the queue length.                                      *)
NextStage ==
  \/ Callbacks(MaxTransactions, {<<PING>>})
  \/ \E t \in {"t1"} :
       \/ init(t, DefaultArgs, TRUE, InitialTransactions)
       \/ PrepareDataToSend(t, Ptr(<<9, 9, 9>>), 3)
       \/ EnsureSubmit(t) \/ EnsureClear(t)
  \/ \E t \in {"t2"} :
       \/ PrepareDataToSend(t, Ptr(<<7, 7>>), 2)
       \/ PendingTake(t) \/ PendingRead(t)

SpecStage == Init /\ [][NextStage]_vars

(* Start-up with a driver that may refuse to start or to take one of the   *)
(* three descriptors, and what follows a failed start.                     *)
NextInit ==
  \/ Callbacks(MaxTransactions, {<<PING>>})
  \/ \E t \in {"t1"} :
       \/ \E ok \in BOOLEAN : \E n \in 0..InitialTransactions :
            init(t, DefaultArgs, ok, n)
       \/ ProcessCheck(t) \/ ProcessTake(t) \/ ProcessPop(t)
       \/ ProcessHandle(t)
       \/ EnsureSubmit(t) \/ EnsureClear(t)

SpecInit == Init /\ [][NextInit]_vars

(* first bytes a master sends: every command the built-in handling names,  *)
(* buffer_status_request, and a value the protocol does not assign         *)
CommandInputs ==
  {<<PING>>, <<CAMERA_DATA_REQUEST>>, <<CAMERA_DATA_BLOCK_REQUEST>>,
   <<BUFFER_STATUS_REQUEST>>, <<ACK>>, <<NACK>>, <<3>>}

(* The built-in handling of every command byte, no callback registered. *)
NextCommands ==
  \/ Callbacks(MaxTransactions, CommandInputs)
  \/ \E t \in {"t1"} :
       \/ init(t, DefaultArgs, TRUE, InitialTransactions)
       \/ ProcessCheck(t) \/ ProcessTake(t) \/ ProcessPop(t)
       \/ ProcessHandle(t)
       \/ EnsureSubmit(t) \/ EnsureClear(t)

SpecCommands == Init /\ [][NextCommands]_vars

(* arguments of init: none, a full set with mode 3, and a set with values  *)
(* beyond the width of the members that store them                         *)
PinInputs ==
  {DefaultArgs,
   [sck |-> 18, miso |-> 19, mosi |-> 23, cs |-> 5, mode |-> 3],
   [sck |-> 274, miso |-> -1, mosi |-> 23, cs |-> 261, mode |-> 1]}

(* Initialization repeated with other pins, and recovery. *)
NextConfig ==
  \/ Callbacks(MaxTransactions, {<<PING>>})
  \/ \E t \in {"t1"} :
       \/ \E a \in PinInputs : \E ok \in BOOLEAN :
            init(t, a, ok, InitialTransactions)
       \/ ResetSPIInterface(t)
       \/ \E ok \in BOOLEAN : ResetInit(t, ok, InitialTransactions)
       \/ ResetClear(t) \/ ResetTake(t) \/ ResetDrain(t) \/ ResetStage(t)
       \/ EnsureSubmit(t) \/ EnsureClear(t)

SpecConfig == Init /\ [][NextConfig]_vars

(* A consumer and a recovering task against the callbacks. *)
NextOwnership ==
  \/ Callbacks(MaxTransactions, {<<PING>>})
  \/ \E t \in {"t1"} :
       \/ init(t, DefaultArgs, TRUE, InitialTransactions)
       \/ ProcessCheck(t) \/ ProcessTake(t) \/ ProcessTimeout(t)
       \/ ProcessPop(t) \/ ProcessHandle(t)
       \/ EnsureSubmit(t) \/ EnsureClear(t)
  \/ \E t \in {"t2"} :
       \/ ProcessCheck(t) \/ ProcessTake(t) \/ ProcessTimeout(t)
       \/ ProcessPop(t) \/ ProcessHandle(t)
       \/ ResetSPIInterface(t)
       \/ \E ok \in BOOLEAN : ResetInit(t, ok, InitialTransactions)
       \/ ResetClear(t) \/ ResetTake(t) \/ ResetTimeout(t)
       \/ ResetDrain(t) \/ ResetStage(t)

SpecOwnership == Init /\ [][NextOwnership]_vars

(* The main loop's poll against more completed transfers than init queued  *)
(* descriptors for; a second task reads the queue length.                  *)
NextPolling ==
  \/ Callbacks(MaxPolledTransactions, {<<PING>>})
  \/ \E t \in {"t1"} :
       \/ init(t, DefaultArgs, TRUE, InitialTransactions)
       \/ EnsureSubmit(t) \/ EnsureClear(t)
  \/ \E t \in {"t2"} :
       \/ PendingTake(t) \/ PendingRead(t)

SpecPolling == Init /\ [][NextPolling]_vars

(* Two polling tasks, one of which also recovers, against the callbacks. *)
NextDepth ==
  \/ Callbacks(MaxTransactions, {<<PING>>})
  \/ \E t \in {"t1"} :
       \/ init(t, DefaultArgs, TRUE, InitialTransactions)
       \/ EnsureSubmit(t) \/ EnsureClear(t)
       \/ ResetSPIInterface(t)
       \/ \E ok \in BOOLEAN : ResetInit(t, ok, InitialTransactions)
       \/ ResetClear(t) \/ ResetTake(t) \/ ResetDrain(t) \/ ResetStage(t)
  \/ \E t \in {"t2"} :
       \/ EnsureSubmit(t) \/ EnsureClear(t)

SpecDepth == Init /\ [][NextDepth]_vars

(* The buffer pool under every sequence of getBuffer and returnBuffer      *)
(* calls, the holders of pool buffers writing to them in between.          *)
NextPool ==
  \/ \E m \in {0} \cup HeapPtrs : GetBuffer(m)
  \/ \E b \in PoolPtrs : WriteBuffer(b, <<CAMERA_DATA_REQUEST, 7>>)
  \/ \E b \in PoolPtrs \cup HeapPtrs : ReturnBuffer(b)

SpecPool == Init /\ [][NextPool]_vars

-----------------------------------------------------------------------------
(* Claims *)

(* C1: in every reachable state the receive queue holds at most            *)
(* _maxQueueSize packets, whatever the interleaving of the completion      *)
(* callback with the tasks that use the queue.                             *)
C1_QueueWithinMax == Len(receiveQueue) <= maxQueueSize

(* C2: packets leave the receive queue in the order they were pushed: each *)
(* packet processNextReceive pops was pushed after the one popped before   *)
(* it and before every packet still queued (ids count the packets in the   *)
(* order the callback built and pushed them).                              *)
C2_DequeuedInPushOrder ==
  [][lastDequeued' # lastDequeued =>
       /\ lastDequeued' > lastDequeued
       /\ \A i \in 1..Len(receiveQueue') :
            receiveQueue'[i].id > lastDequeued']_vars

(* C2 witness: enqueues and dequeues interleaved: a second packet has been *)
(* popped while a later one waits in the queue.                            *)
C2_Witness == lastDequeued >= 2 /\ Len(receiveQueue) > 0

(* C3: a completion callback that runs while the queue holds               *)
(* _maxQueueSize packets counts the completion and stamps its time, and    *)
(* when it comes to its push leaves the queue as it is and sets the        *)
(* needs-new-transaction flag.                                             *)
C3_FullQueueUnchanged ==
  [][/\ (transactionCount' # transactionCount
           /\ Len(receiveQueue) >= maxQueueSize)
        => (transactionCount' = transactionCount + 1
              /\ lastTransactionTime' = now)
     /\ (OnSpiTransactionFinish /\ Len(receiveQueue) >= maxQueueSize)
        => (receiveQueue' = receiveQueue /\ needsNewTransaction')]_vars

(* the time the poll of task t measures since the last completion *)
Elapsed(t) == Sub32(task[t].currentTime, lastTransactionTime)

(* C4: a poll that finds the engine initialized, at least one completed    *)
(* transfer, and more than 2 x _transactionTimeout since the last          *)
(* completion invokes resetSPIInterface (which counts a recovery attempt). *)
C4_SilentLinkRecovers ==
  [][\A t \in Tasks :
       (/\ CheckDecide(t)
        /\ initialized /\ transactionCount > 0
        /\ Elapsed(t) > 2 * transactionTimeout)
       => (recoveryAttempts' = recoveryAttempts + 1 /\
           task'[t].pc = "resetInit")]_vars

(* C4 witness: recovery begun by a poll on an idle link (no transfer       *)
(* marked active) that has been silent for more than twice the timeout.    *)
C4_Witness ==
  \E t \in Tasks :
    /\ task[t].pc = "resetInit" /\ task[t].op = "checkAndRecover"
    /\ transactionCount > 0 /\ ~transactionActive
    /\ Elapsed(t) > 2 * transactionTimeout

(* C5 as claimed: with no completed transfer a poll never triggers         *)
(* recovery, whether or not a transfer has been marked active.             *)
C5_NoRecoveryBeforeFirstCompletion ==
  [][\A t \in Tasks :
       (CheckDecide(t) /\ transactionCount = 0)
       => recoveryAttempts' = recoveryAttempts]_vars

(* C5 amended: with no completed transfer and no transfer marked active, a *)
(* poll never triggers recovery, whatever time has elapsed.                *)
C5_NoRecoveryWhenIdleBeforeFirstCompletion ==
  [][\A t \in Tasks :
       (CheckDecide(t) /\ transactionCount = 0 /\ ~transactionActive)
       => (recoveryAttempts' = recoveryAttempts /\
           task'[t].pc = "idle" /\ task'[t].ret = "false")]_vars

(* C5 witness: a poll has returned false on an initialized link that never *)
(* completed a transfer, more than twice the timeout after start-up.       *)
C5_Witness ==
  \E t \in Tasks :
    /\ task[t].pc = "idle" /\ task[t].op = "checkAndRecover"
    /\ task[t].ret = "false"
    /\ initialized /\ transactionCount = 0 /\ ~transactionActive
    /\ recoveryAttempts = 0
    /\ now - lastTransactionTime > 2 * transactionTimeout

(* C6: a poll that finds the engine initialized, a transfer marked active  *)
(* and more than _transactionTimeout since the last completion invokes     *)
(* resetSPIInterface.                                                      *)
C6_StalledTransferRecovers ==
  [][\A t \in Tasks :
       (/\ CheckDecide(t)
        /\ initialized /\ transactionActive
        /\ Elapsed(t) > transactionTimeout)
       => (recoveryAttempts' = recoveryAttempts + 1 /\
           task'[t].pc = "resetInit")]_vars

(* C6 witness: recovery begun by a poll for a transfer marked active, more *)
(* than the timeout but not more than twice the timeout after the last     *)
(* completion.                                                             *)
C6_Witness ==
  \E t \in Tasks :
    /\ task[t].pc = "resetInit" /\ task[t].op = "checkAndRecover"
    /\ transactionActive
    /\ Elapsed(t) > transactionTimeout
    /\ Elapsed(t) <= 2 * transactionTimeout

(* No callback has run since the driver was started again: no descriptor   *)
(* of the new driver has been set up or completed, none is mid-callback,   *)
(* and no completion waits for a new descriptor.                           *)
QuietSinceInit ==
  /\ isr.pc = "idle"
  /\ ~needsNewTransaction
  /\ hw = [installed |-> TRUE, queued |-> InitialTransactions,
           loaded |-> FALSE]

(* C7: when resetSPIInterface returns true (here: with no callback having  *)
(* run meanwhile), the transaction-active flag is false, the receive queue *)
(* is empty, and the staged payload is the 4 bytes AA 55 AA 55 with the    *)
(* data-ready flag set and the rest of the transmit buffer zero.           *)
C7_ResetPostcondition ==
  [][\A t \in Tasks :
       (ResetStage(t) /\ QuietSinceInit)
       => /\ task'[t].ret = "true"
          /\ ~transactionActive'
          /\ receiveQueue' = <<>>
          /\ txBuffer' = Beacon /\ txLength' = 4 /\ dataReady']_vars

(* C8: after a failed recovery the engine is uninitialized, and a later    *)
(* poll attempts recovery again.                                           *)
C8_FailedRecoveryRetried ==
  [][\A t \in Tasks :
       (CheckStart(t) /\ ~initialized /\ recoveryAttempts > 0)
       => recoveryAttempts' = recoveryAttempts + 1]_vars

(* C9: every completed transfer sets the needs-new-transaction flag: when  *)
(* the completion callback returns, the flag is set.                       *)
C9_CompletionRequestsTransaction ==
  [][((transactionCount' # transactionCount \/ isr' # isr)
        /\ isr'.pc = "idle")
       => needsNewTransaction']_vars

(* C10: prepareDataToSend returns false and leaves the transmit buffer,    *)
(* the staged length and the data-ready flag unchanged when the data       *)
(* pointer is null, the length is 0, the length exceeds the buffer size,   *)
(* or the engine is not initialized.                                       *)
C10_RejectedPayloadChangesNothing ==
  [][\A t \in Tasks : \A d \in SendInputs :
       (/\ PrepareDataToSend(t, d.data, d.length)
        /\ \/ d.data.null
           \/ d.length = 0
           \/ d.length > bufferSize
           \/ ~initialized)
       => (task'[t].ret = "false" /\
           UNCHANGED <<txBuffer, txLength, dataReady>>)]_vars

(* C10 witness: a payload is staged and a later call has been rejected by  *)
(* the initialized engine, the staged payload still in place.              *)
C10_Witness ==
  \E t \in Tasks :
    /\ task[t].op = "prepareDataToSend" /\ task[t].ret = "false"
    /\ initialized /\ dataReady
    /\ txBuffer = <<9, 9, 9>> /\ txLength = 3

(* C11: isReadyToSend is true only when the engine is initialized and no   *)
(* staged payload still waits to be transmitted: it turns true on an       *)
(* initialized engine only when the completion callback of a transfer that *)
(* sent the staged payload finishes, and every completion callback that    *)
(* finishes leaves the data-ready flag clear.                              *)
C11_ReadyOnlyAfterPayloadSent ==
  [][/\ (initialized /\ ~IsReadyToSend /\ IsReadyToSend')
          => (isr.pc = "push" /\ isr'.pc = "idle" /\ isr.sent = txBuffer)
     /\ (isr.pc = "push" /\ isr'.pc = "idle") => ~dataReady']_vars

(* C12 as claimed: with no receive callback registered, handling a         *)
(* dequeued packet whose first byte is PING stages the 4 bytes             *)
(* PONG, 0, s, 0 with s the buffer status at the time of handling.         *)
C12_PingStagesPong ==
  [][\A t \in Tasks :
       (/\ ProcessHandle(t) /\ ~receiveCallback
        /\ task[t].packet.length > 0 /\ ByteAt(task[t].packet.data, 1) = PING)
       => /\ txBuffer' = <<PONG, 0, BufferStatus(CountOrZero), 0>>
          /\ txLength' = 4 /\ dataReady']_vars

(* C12 amended: the same on an initialized engine. *)
C12_PingStagesPongWhenInitialized ==
  [][\A t \in Tasks :
       (/\ ProcessHandle(t) /\ ~receiveCallback /\ initialized
        /\ task[t].packet.length > 0 /\ ByteAt(task[t].packet.data, 1) = PING)
       => /\ txBuffer' = <<PONG, 0, BufferStatus(CountOrZero), 0>>
          /\ txLength' = 4 /\ dataReady']_vars

(* C12 witness: a ping has been answered while another packet waited in    *)
(* the queue: the pong carries the status 10.                              *)
C12_Witness ==
  \E t \in Tasks :
    /\ task[t].op = "processNextReceive" /\ task[t].ret = "true"
    /\ ~receiveCallback /\ initialized
    /\ txBuffer = <<PONG, 0, 10, 0>> /\ txLength = 4 /\ dataReady
    /\ Len(receiveQueue) = 1

(* C13: with a receive callback registered, processNextReceive gives the   *)
(* dequeued packet's bytes and length to the callback exactly once and     *)
(* stages nothing: transmit buffer, staged length and data-ready flag are  *)
(* unchanged, also for a ping.                                             *)
C13_CallbackReplacesHandling ==
  [][\A t \in Tasks :
       (ProcessHandle(t) /\ receiveCallback)
       => /\ delivered' = Append(delivered,
                                 [data |-> task[t].packet.data,
                                  length |-> task[t].packet.length])
          /\ UNCHANGED <<txBuffer, txLength, dataReady>>]_vars

(* C13 witness: the callback has been given a ping and no pong is staged. *)
C13_Witness ==
  \E t \in Tasks :
    /\ task[t].op = "processNextReceive" /\ task[t].ret = "true"
    /\ receiveCallback /\ initialized
    /\ delivered = <<[data |-> <<PING>>, length |-> 1]>>
    /\ ~dataReady /\ txBuffer = <<>>

(* C14: for every pending count c from 0 to _maxQueueSize, getBufferStatus *)
(* returns the r with r * _maxQueueSize <= c * 100 < (r + 1) *             *)
(* _maxQueueSize, which lies within 0..100.                                *)
C14_StatusIsPercentage ==
  [][\A t \in Tasks :
       (GetBufferStatusRead(t) /\ Len(receiveQueue) <= maxQueueSize)
       => LET c == Len(receiveQueue)
              r == task'[t].count
          IN  /\ r \in 0..100
              /\ r * maxQueueSize <= c * 100
              /\ c * 100 < (r + 1) * maxQueueSize]_vars

(* C14 witness: getBufferStatus has returned 100 for a queue of            *)
(* _maxQueueSize packets.                                                  *)
C14_Witness ==
  \E t \in Tasks :
    /\ task[t].pc = "idle" /\ task[t].op = "getBufferStatus"
    /\ task[t].count = 100
    /\ Len(receiveQueue) = maxQueueSize

(* every byte of a buffer is zero *)
AllZero(bytes) == \A i \in 1..Len(bytes) : bytes[i] = 0

(* C15: under every sequence of getBuffer and returnBuffer calls, a pool   *)
(* buffer that getBuffer returns was not marked in use and holds only zero *)
(* bytes, whatever was written to it before it was released.               *)
C15_PoolHandsOutFreeZeroedBuffers ==
  [][\A m \in {0} \cup HeapPtrs :
       (GetBuffer(m) /\ got' \in PoolPtrs)
       => /\ ~bufferPool[got'].inUse
          /\ AllZero(bufferPool[got'].bytes)]_vars

(* C15 witness: the first pool buffer has been handed out again after its  *)
(* release, while the second, handed out after it, is still held and       *)
(* written.                                                                *)
C15_Witness ==
  /\ got = 1 /\ bufferPool[1].inUse /\ AllZero(bufferPool[1].bytes)
  /\ bufferPool[2].inUse /\ ~AllZero(bufferPool[2].bytes)

(* C16: with every pool buffer in use, getBuffer returns nothing or a      *)
(* one-off allocation outside the pool and leaves the in-use flags as they *)
(* are; returnBuffer of a buffer that is not in the pool frees it and      *)
(* leaves every pool flag and every pool buffer's contents as they are.    *)
C16_ExhaustedPoolUntouched ==
  [][/\ \A m \in {0} \cup HeapPtrs :
          (GetBuffer(m) /\ \A i \in PoolPtrs : bufferPool[i].inUse)
          => /\ got' \notin PoolPtrs
             /\ got' = 0 \/ (got' \in heap' /\ got' \notin heap)
             /\ bufferPool' = bufferPool
     /\ \A b \in HeapPtrs :
          ReturnBuffer(b)
          => (bufferPool' = bufferPool /\ heap' = heap \ {b})]_vars

(* C16 witness: with all six pool buffers in use and one of them written,  *)
(* getBuffer has handed out a one-off buffer, which has been returned and  *)
(* freed.                                                                  *)
C16_Witness ==
  /\ \A i \in PoolPtrs : bufferPool[i].inUse
  /\ ~AllZero(bufferPool[3].bytes)
  /\ got \in HeapPtrs /\ got \notin heap

(* C17: the completion callback never waits for the queue semaphore: in no *)
(* reachable state does it sit in a take of the semaphore while a task     *)
(* holds it.                                                               *)
C17_CallbackNeverWaits == ~(isr.pc = "wait" /\ queueSemaphore # Free)

(* C18: with consumers calling processNextReceive concurrently, packets    *)
(* are dispatched to handleReceivedData in arrival order: when a task      *)
(* dispatches its packet, no other task holds a packet that arrived        *)
(* earlier and is not dispatched yet.                                      *)
C18_DispatchedInArrivalOrder ==
  [][\A t \in Tasks :
       ProcessHandle(t)
       => \A u \in Tasks \ {t} :
            task[u].pc = "pnrHandle"
            => task[u].packet.id > task[t].packet.id]_vars

(* C19: when init returns false, no driver remains installed, no           *)
(* descriptor remains queued and the engine is not initialized.            *)
C19_FailedInitLeavesNothing ==
  [][\A t \in Tasks : \A ok \in BOOLEAN : \A n \in 0..InitialTransactions :
       (init(t, DefaultArgs, ok, n) /\ task'[t].ret = "false")
       => (~hw'.installed /\ hw'.queued = 0 /\ ~initialized')]_vars

(* C20: ensureTransactionQueued submits a descriptor only when the engine  *)
(* is initialized and the needs-new-transaction flag is set; a submission  *)
(* the driver refuses (its queue of 5 is full) returns false with the flag *)
(* still set; and the flag is cleared only by a call whose submission      *)
(* succeeded, which returns true.                                          *)
C20_SubmitOnlyWhenNeeded ==
  [][/\ \A t \in Tasks :
          EnsureSubmit(t)
          => /\ hw'.queued # hw.queued
                  => (initialized /\ needsNewTransaction)
             /\ (initialized /\ needsNewTransaction
                   /\ hw.queued >= DriverQueueSize)
                  => (task'[t].ret = "false" /\ needsNewTransaction'
                      /\ hw'.queued = hw.queued)
     /\ (needsNewTransaction /\ ~needsNewTransaction')
          => \E t \in Tasks :
               /\ task[t].pc = "etqClear"
               /\ task'[t].pc = "idle" /\ task'[t].ret = "true"]_vars

(* C20 witness: a call has returned false because the driver's queue was   *)
(* full, and the flag is still set.                                        *)
C20_Witness ==
  \E t \in Tasks :
    /\ task[t].pc = "idle" /\ task[t].op = "ensureTransactionQueued"
    /\ task[t].ret = "false"
    /\ initialized /\ needsNewTransaction
    /\ hw.queued = DriverQueueSize

(* C21: a poll that finds neither staleness condition (no active transfer  *)
(* silent for more than the timeout, no silence of more than twice the     *)
(* timeout after a completed transfer) and the needs-new-transaction flag  *)
(* set goes through ensureTransactionQueued and returns true, with no      *)
(* recovery: the recovery-attempt counter, the receive queue, the staged   *)
(* payload and the initialized flag are unchanged.                         *)
C21_MissedRequeueIsNotRecovery ==
  [][\A t \in Tasks :
       (/\ CheckDecide(t)
        /\ ~(transactionActive /\ Above32(Elapsed(t), transactionTimeout))
        /\ ~(Above32(Elapsed(t), 2 * transactionTimeout)
               /\ initialized /\ transactionCount > 0)
        /\ needsNewTransaction)
       => /\ UNCHANGED <<recoveryAttempts, receiveQueue, txBuffer, txLength,
                         dataReady, initialized>>
          /\ \/ task'[t].pc = "etqClear" /\ hw'.queued = hw.queued + 1
             \/ task'[t].pc = "idle" /\ task'[t].ret = "true"
                  /\ hw' = hw]_vars

(* C21 witness: a poll more than the timeout after the last completion,    *)
(* with no transfer active, has submitted the missing descriptor, cleared  *)
(* the flag and returned true without a recovery.                          *)
C21_Witness ==
  \E t \in Tasks :
    /\ task[t].pc = "idle" /\ task[t].op = "checkAndRecover"
    /\ task[t].ret = "true"
    /\ recoveryAttempts = 0 /\ ~needsNewTransaction /\ ~transactionActive
    /\ transactionCount > 0 /\ hw.queued = InitialTransactions
    /\ now - lastTransactionTime > transactionTimeout

(* C22: a prepareDataToSend that succeeds while the payload of an earlier  *)
(* success is still staged (no transfer has completed in between) leaves   *)
(* in the transmit buffer exactly its own payload followed by zeros, and   *)
(* its own length as the staged length.                                    *)
C22_SecondPayloadReplacesFirst ==
  [][\A t \in Tasks : \A d \in SendInputs :
       (/\ PrepareDataToSend(t, d.data, d.length)
        /\ task'[t].ret = "true" /\ dataReady)
       => /\ txLength' = d.length
          /\ \A i \in (1..Len(txBuffer)) \cup (1..Len(txBuffer'))
                       \cup (1..d.length) :
               ByteAt(txBuffer', i) =
                 IF i <= d.length THEN ByteAt(d.data.bytes, i) ELSE 0]_vars

(* C22 witness: the first task has staged its 3 bytes, the second task its *)
(* 2 bytes after it, with no completed transfer at all: the buffer holds   *)
(* the 2 bytes.                                                            *)
C22_Witness ==
  /\ task["t1"].op = "prepareDataToSend" /\ task["t1"].ret = "true"
  /\ task["t2"].op = "prepareDataToSend" /\ task["t2"].ret = "true"
  /\ transactionCount = 0 /\ dataReady
  /\ txBuffer = <<7, 7>> /\ txLength = 2

(* task t returns v from processNextReceive in this step *)
ProcessReturns(t, v) ==
  /\ task'[t] # task[t]
  /\ task'[t].pc = "idle" /\ task'[t].op = "processNextReceive"
  /\ task'[t].ret = v

C24_NoRecoveryUnderTraffic ==
  [][\A t \in Tasks :
       (/\ CheckDecide(t)
        /\ transactionCount > 0
        /\ now - lastTransactionTime < transactionTimeout)
       => recoveryAttempts' = recoveryAttempts]_vars

(* C25: no callback runs between the writes that one task-context          *)
(* operation makes to the shared buffers and transaction state: while      *)
(* resetSPIInterface is between its reset of the tracking fields and       *)
(* buffers (lines 482-489) and its staging of the pattern (line 503), no   *)
(* step of onSpiPreTransaction or onSpiTransaction is taken.               *)
C25_NoCallbackInsideReset ==
  [][(\E t \in Tasks :
        task[t].pc \in {"resetTake", "resetDrain", "resetStage"})
       => (isr' = isr /\ hw'.loaded = hw.loaded)]_vars

(* C26: with no receive callback registered, processing a packet whose     *)
(* first byte is not ping (0x01) -- a camera request, a buffer status      *)
(* request, ack, nack or an unassigned value -- stages no reply: transmit  *)
(* buffer, staged length, data-ready flag, receive queue and transaction   *)
(* state are as they were before the packet was handled.                   *)
C26_OnlyPingIsAnswered ==
  [][\A t \in Tasks :
       (/\ ProcessHandle(t)
        /\ ~receiveCallback
        /\ ByteAt(task[t].packet.data, 1) # PING)
       => UNCHANGED <<txBuffer, txLength, dataReady, receiveQueue,
                      transactionActive, transactionCount,
                      lastTransactionTime, needsNewTransaction, hw>>]_vars

(* three packets that are not pings have been handled by an initialized    *)
(* engine without a callback, and nothing was ever staged                   *)
C26_Witness ==
  \E t \in Tasks :
    /\ task[t].op = "processNextReceive" /\ task[t].ret = "true"
    /\ ~receiveCallback /\ initialized
    /\ lastDequeued = MaxTransactions /\ receiveQueue = <<>>
    /\ txBuffer = <<>> /\ txLength = 0 /\ ~dataReady

(* C27: init called on an initialized engine returns true and changes      *)
(* neither the stored pins and mode nor the driver (installed, its pins,   *)
(* its outstanding descriptors); and the init that resetSPIInterface runs  *)
(* leaves the stored pins and mode as the last effective init stored them  *)
(* and starts the driver with exactly these values.                        *)
C27_ConfigurationKeptUntilReset ==
  [][/\ \A t \in Tasks : \A a \in PinInputs : \A ok \in BOOLEAN :
          (init(t, a, ok, InitialTransactions) /\ initialized)
          => /\ task'[t].ret = "true"
             /\ UNCHANGED <<pins, driverPins, hw, initialized>>
     /\ \A t \in Tasks : \A ok \in BOOLEAN :
          ResetInit(t, ok, InitialTransactions)
          => /\ pins' = pins
             /\ (hw'.installed /\ ~hw.installed) => driverPins' = pins]_vars

(* a reset has started the driver again with pins that were stored from    *)
(* arguments wider than the members, one of them defaulted                 *)
C27_Witness ==
  \E t \in Tasks :
    /\ task[t].pc = "resetClear" /\ recoveryAttempts > 0
    /\ initialized /\ hw.installed
    /\ pins = [sck |-> 18, miso |-> SPI_MISO_PIN, mosi |-> 23, cs |-> 5,
               mode |-> 1]
    /\ driverPins = pins

(* the holders of packet id: the callback, the queue (once for each entry  *)
(* with the id), each task that has popped it, and the destroyed packets   *)
Holders(id) ==
  (IF isr.packet # NoPacket /\ isr.packet.id = id THEN 1 ELSE 0)
  + Cardinality({i \in DOMAIN receiveQueue : receiveQueue[i].id = id})
  + Cardinality({t \in Tasks : task[t].packet # NoPacket
                                 /\ task[t].packet.id = id})
  + (IF id \in deleted THEN 1 ELSE 0)

(* C28: every packet the completion callback has created is at any time    *)
(* either destroyed or held by exactly one owner -- the callback, the      *)
(* queue or one consuming task -- never both and never by two: no packet   *)
(* is lost without being destroyed, none is destroyed while still held     *)
(* (so none is destroyed twice or dispatched after its destruction).       *)
C28_OneOwnerUntilDestroyed ==
  /\ \A id \in 1..created : Holders(id) = 1
  /\ deleted \subseteq 1..created

(* the first packet is with a consuming task, not dispatched yet, and the  *)
(* two created after it were destroyed without ever being popped by a      *)
(* consumer: dropped by the callback or drained by a recovery              *)
C28_Witness ==
  /\ created = 3 /\ deleted = {2, 3}
  /\ lastDequeued = 1 /\ recoveryAttempts > 0
  /\ receiveQueue = <<>> /\ isr.packet = NoPacket
  /\ \E t \in Tasks : task[t].pc = "pnrHandle" /\ task[t].packet.id = 1

(* C29: when the completion callback cannot take the queue semaphore for   *)
(* its push, the packet is dropped and destroyed and the queue is          *)
(* unchanged, while the rest is as for a queued packet: the data-ready     *)
(* flag is cleared and the needs-new-transaction flag set by the same      *)
(* step, and completion counter and timestamp keep the values the          *)
(* callback gave them on entry, where every completion counts once and is  *)
(* stamped with the current time.                                          *)
C29_ContendedPushDropsPacket ==
  [][/\ (OnSpiTransactionFinish /\ isr.packet # NoPacket
          /\ queueSemaphore # Free)
        => /\ receiveQueue' = receiveQueue
           /\ isr.packet.id \in deleted'
     /\ OnSpiTransactionFinish
        => /\ ~dataReady' /\ needsNewTransaction'
           /\ transactionCount' = transactionCount
           /\ lastTransactionTime' = lastTransactionTime
     /\ (\E rx \in {<<>>, <<PING>>} :
           OnSpiTransaction(rx, MaxWatchdogTransactions))
        => /\ transactionCount' = transactionCount + 1
           /\ lastTransactionTime' = now]_vars

(* a packet has been dropped while the first recovery held the semaphore   *)
(* for its drain: the transfer is counted and stamped, the flags are set   *)
(* as after any completion, and the queue is empty                         *)
C29_Witness ==
  \E t \in Tasks :
    /\ task[t].pc = "resetDrain" /\ queueSemaphore = t
    /\ recoveryAttempts = 1
    /\ isr = IdleIsr /\ deleted = {created} /\ created > 0
    /\ receiveQueue = <<>>
    /\ transactionCount > 0 /\ lastTransactionTime > 0
    /\ ~dataReady /\ needsNewTransaction

(* C30: pendingReceiveCount returns the number of packets that are in the  *)
(* receive queue at an instant of the call, whoever holds or contends for  *)
(* the queue semaphore: the value a call returns is the length the queue   *)
(* has when the call reads it or gives up waiting, so it is not 0 while    *)
(* packets are queued.                                                     *)
C30_CountIsAQueueLength ==
  [][\A t \in Tasks :
       (PendingRead(t) \/ PendingTimeout(t))
       => task'[t].count = Len(receiveQueue)]_vars

(* C31: no request for a new transaction is lost: once polling has caught  *)
(* up (no callback is running, the flag is clear and no call of            *)
(* ensureTransactionQueued is between its submission and its clearing of   *)
(* the flag), every completion since init has been answered by one         *)
(* submission, so the driver holds the three descriptors init queued.      *)
C31_EveryCompletionResubmitted ==
  (/\ initialized
   /\ ~needsNewTransaction
   /\ isr.pc = "idle"
   /\ \A t \in Tasks : task[t].pc # "etqClear")
  => hw.queued = InitialTransactions

(* C32: an engine that is polled never starves the link: the state         *)
(* "initialized, no descriptor outstanding, needs-new-transaction flag     *)
(* clear" with no callback running, in which no poll submits anything and  *)
(* no transfer can complete, is never reached.                             *)
C32_PolledEngineKeepsDescriptor ==
  ~(/\ initialized
    /\ hw.queued = 0
    /\ ~needsNewTransaction
    /\ isr.pc = "idle")

(* C33: a poll invokes resetSPIInterface only when more than               *)
(* _transactionTimeout has really passed since the last completed          *)
(* transfer: a completion that stamps the time between the poll's clock    *)
(* read and its subtraction causes no recovery.                            *)
C33_RecoveryOnlyAfterRealSilence ==
  [][\A t \in Tasks :
       (CheckDecide(t) /\ recoveryAttempts' # recoveryAttempts)
       => now - lastTransactionTime > transactionTimeout]_vars

InUse(pool) == {b \in PoolPtrs : pool[b].inUse}

(* C35: outside the completion callback no pool buffer is marked in use,   *)
(* and inside it, between its getBuffer and its returnBuffer, exactly the  *)
(* one buffer it took is: at most one pool buffer is in use at any         *)
(* instant, so the receive path never exhausts the pool.                   *)
C35_PoolFreeBetweenCallbacks ==
  /\ InUse(bufferPool) = {}
  /\ Cardinality(InUse(GetBufferPool(bufferPool))) <= 1
  /\ GetBufferPtr(bufferPool, 0) \in PoolPtrs

(* the callback has built its third packet from a pool buffer and has      *)
(* returned the buffer                                                     *)
C35_Witness ==
  /\ isr.pc = "push" /\ isr.packet # NoPacket
  /\ created = MaxTransactions
  /\ isr.packet.data = <<NACK>>
  /\ \A b \in PoolPtrs : ~bufferPool[b].inUse /\ bufferPool[b].bytes = <<>>

(* C36: the callbacks of a completed transfer leave the transmit buffer    *)
(* and the staged length as they are (the completion clears only the       *)
(* data-ready flag and zeroes the receive buffer), every transfer presents *)
(* the transmit buffer as it is, data-ready or not, and the buffer and the *)
(* length change only in prepareDataToSend (also when it answers a ping).  *)
C36_StagedPayloadStays ==
  [][/\ (\/ OnSpiPreTransaction
         \/ \E rx \in RxInputs : OnSpiTransaction(rx, MaxTransactions)
         \/ OnSpiTransactionCount
         \/ OnSpiTransactionFinish)
        => UNCHANGED <<txBuffer, txLength>>
     /\ OnSpiTransactionFinish
        => (~dataReady' /\ AllZero(rxBuffer'))
     /\ (\E rx \in RxInputs \ {<<>>} : OnSpiTransaction(rx, MaxTransactions))
        => isr'.sent = txBuffer
     /\ (txBuffer' # txBuffer \/ txLength' # txLength)
        => \E t \in Tasks :
             \/ \E d \in SendInputs : PrepareDataToSend(t, d.data, d.length)
             \/ ProcessHandle(t)]_vars

(* the third transfer has presented the payload that was staged before it  *)
(* although the data-ready flag had been cleared by an earlier completion  *)
C36_Witness ==
  /\ transactionCount = MaxTransactions
  /\ isr.pc = "push" /\ isr.sent = <<9, 9, 9>>
  /\ txBuffer = <<9, 9, 9>> /\ txLength = 3
  /\ ~dataReady

(* the steps of resetSPIInterface that follow its first *)
ResetContinues(t) ==
  \/ \E ok \in BOOLEAN : ResetInit(t, ok, InitialTransactions)
  \/ ResetClear(t) \/ ResetTake(t) \/ ResetDrain(t) \/ ResetStage(t)

(* C37: every invocation of resetSPIInterface, by a task or by the         *)
(* watchdog, adds exactly one to the recovery-attempt counter, and nothing *)
(* else changes the counter, whether the re-initialization then succeeds   *)
(* or fails; no step of resetSPIInterface changes the completion counter   *)
(* or the needs-new-transaction flag; hence a poll that finds an engine    *)
(* recovered before, with a completed transfer counted and more than       *)
(* 2 x _transactionTimeout since the last activity, recovers again.        *)
C37_EveryResetCountsOnce ==
  [][/\ \A t \in Tasks :
          (ResetSPIInterface(t)
             \/ (CheckDecide(t) /\ task'[t].pc = "resetInit"))
          => /\ recoveryAttempts' = recoveryAttempts + 1
             /\ UNCHANGED <<transactionCount, needsNewTransaction>>
     /\ \A t \in Tasks :
          ResetContinues(t)
          => UNCHANGED <<recoveryAttempts, transactionCount,
                         needsNewTransaction>>
     /\ recoveryAttempts' # recoveryAttempts
          => \E t \in Tasks :
               task[t].pc # "resetInit" /\ task'[t].pc = "resetInit"
     /\ \A t \in Tasks :
          (/\ CheckDecide(t)
           /\ recoveryAttempts > 0
           /\ initialized /\ transactionCount > 0
           /\ Elapsed(t) > 2 * transactionTimeout)
          => (recoveryAttempts' = recoveryAttempts + 1
              /\ task'[t].pc = "resetInit")]_vars

(* the watchdog has begun a second recovery on a link silent since the     *)
(* first, successful one, which left its pattern staged                    *)
C37_Witness ==
  \E t \in Tasks :
    /\ task[t].pc = "resetInit" /\ task[t].op = "checkAndRecover"
    /\ recoveryAttempts = 2
    /\ txBuffer = Beacon /\ dataReady
    /\ transactionCount > 0 /\ ~transactionActive
    /\ Elapsed(t) > 2 * transactionTimeout

====
